---- MODULE Spec2Model ----
(***************************************************************************)
(* Model of the photobg image editor: the two UI variants (src/App.tsx and *)
(* src/index.tsx), their React state, the FileReader callbacks, the        *)
(* requests in flight to the image service and the result extraction of    *)
(* editImage.                                                              *)
(*                                                                         *)
(* JavaScript values are tagged records, so that null, undefined, the      *)
(* empty string and objects stay distinct.  A string is a sequence of      *)
(* chunks of text; a comma is always a chunk of its own.                   *)
(***************************************************************************)
EXTENDS Integers, Sequences, FiniteSets, TLC

VARIABLES variant, image, instruction, status, readers, requests, resultOf, last

vars == <<variant, image, instruction, status, readers, requests, resultOf, last>>

(* ------------------------------ bounds --------------------------------- *)

\* file reads that may be pending at once
MaxReaders == 2
\* requests that may be in flight at once
MaxInFlight == 2
\* parts in the first candidate of a response
MaxParts == 3

(* --------------------------- JavaScript values ------------------------- *)

Null == [tag |-> "null"]

Undefined == [tag |-> "undefined"]

Str(chunks) == [tag |-> "string", chars |-> chunks]

\* JS truthiness of null, undefined, strings and objects
Truthy(v) ==
    CASE v.tag = "null" -> FALSE
      [] v.tag = "undefined" -> FALSE
      [] v.tag = "string" -> v.chars # <<>>
      [] OTHER -> TRUE

\* a || b
Or(a, b) == IF Truthy(a) THEN a ELSE b

\* s.startsWith(p) on strings
StartsWith(s, p) ==
    /\ Len(s.chars) >= Len(p.chars)
    /\ SubSeq(s.chars, 1, Len(p.chars)) = p.chars

\* s.split(sep): the list of the pieces of s between the separators
RECURSIVE SplitFrom(_, _, _, _)
SplitFrom(chunks, sep, i, cur) ==
    IF i > Len(chunks) THEN <<cur>>
    ELSE IF chunks[i] = sep
         THEN <<cur>> \o SplitFrom(chunks, sep, i + 1, <<>>)
         ELSE SplitFrom(chunks, sep, i + 1, Append(cur, chunks[i]))

Split(s, sep) == SplitFrom(s.chars, sep, 1, <<>>)

\* list[k] with a 0-based index: undefined past the end
At(list, k) == IF k + 1 <= Len(list) THEN Str(list[k + 1]) ELSE Undefined

IsSpace(c) == c = " "

\* s.trim()
RECURSIVE TrimLeft(_)
TrimLeft(chunks) ==
    IF chunks # <<>> /\ IsSpace(Head(chunks)) THEN TrimLeft(Tail(chunks)) ELSE chunks

RECURSIVE TrimRight(_)
TrimRight(chunks) ==
    IF chunks # <<>> /\ IsSpace(chunks[Len(chunks)])
    THEN TrimRight(SubSeq(chunks, 1, Len(chunks) - 1))
    ELSE chunks

Trim(s) == Str(TrimRight(TrimLeft(s.chars)))

(* ------------------------------ constants ------------------------------ *)

\* enum RemovalPresets of the App.tsx variant (types)
RemovalPresets ==
    [TRANSPARENT_BG |-> Str(<<"Remove the entire background and make it 100% transparent. The output must be a PNG image with a proper alpha channel transparency, leaving only the main subject. Do not use a solid white or black background.">>),
     OBJECTS |-> Str(<<"Identify and remove distracting background objects or people while keeping the main subject and maintaining the background context.">>),
     TEXT |-> Str(<<"Detect and remove all text", ",", " captions", ",", " or watermarks from this image", ",", " healing the background behind them seamlessly.">>),
     CLEANUP |-> Str(<<"Perform professional image retouching: remove blemishes", ",", " dust", ",", " and distracting small details to make the photo look studio-quality.">>),
     ENHANCE |-> Str(<<"Enhance this image: improve the resolution", ",", " sharpness", ",", " lighting", ",", " and overall color balance. Make it look professional", ",", " vibrant", ",", " and clear while maintaining its original content.">>)]

\* enum RemovalPresets of the index.tsx variant
IndexRemovalPresets ==
    [TRANSPARENT_BG |-> Str(<<"Remove the background completely and make it transparent. Return a PNG with an alpha channel.">>),
     OBJECTS |-> Str(<<"Intelligently remove background objects and distractors while keeping the main subject.">>),
     TEXT |-> Str(<<"Detect and remove all text", ",", " watermarks", ",", " or captions from the image.">>),
     CLEANUP |-> Str(<<"Perform professional cleanup: remove blemishes", ",", " dust", ",", " and minor imperfections.">>),
     ENHANCE |-> Str(<<"Upscale and enhance image quality", ",", " improve clarity", ",", " sharpness", ",", " and color balance.">>)]

InvalidFileMessage == Str(<<"Please upload a valid image file.">>)

AppLoadingMessage == Str(<<"Processing your image with AI magic...">>)

IndexLoadingMessage == Str(<<"Gemini is processing your request...">>)

FallbackErrorMessage == Str(<<"Something went wrong. Please try again.">>)

NoImageMessage == Str(<<"AI did not return an image. Try being more specific about what to remove.">>)

\* what the JS engine reports for response.candidates[0].content when
\* candidates[0] is undefined, and for .parts when content is undefined
TypeErrorContent == Str(<<"Cannot read properties of undefined (reading 'content')">>)

TypeErrorParts == Str(<<"Cannot read properties of undefined (reading 'parts')">>)

PngPrefix == <<"data:image/png;base64", ",">>

(* ------------------------- inputs of the environment ------------------- *)

\* the files a user may select: the MIME type the browser reports and the
\* base64 text of the content
Files ==
    { [tag |-> "object", type |-> Str(<<"image/", "png">>), payload |-> <<"iVBORw0KGgo=">>],
      [tag |-> "object", type |-> Str(<<"image/", "x-raw", ",", "v=2">>), payload |-> <<"UklGRg==">>],
      [tag |-> "object", type |-> Str(<<"text/", "plain">>), payload |-> <<"aGVsbG8=">>] }

\* e.target.files?.[0] : a file, or undefined for an empty selection
Selections == Files \cup {Undefined}

\* texts a user may type into the custom prompt
TypedTexts == {Str(<<>>), Str(<<" ">>), Str(<<"Remove the blue car on the left">>)}

\* FileReader.readAsDataURL: the reader's result for a file
ReadAsDataURL(file) ==
    Str(<<"data:">> \o file.type.chars \o <<";base64", ",">> \o file.payload)

(* ------------------------- the image service --------------------------- *)

Array(items) == [tag |-> "array", items |-> items]

Object(fields) == [tag |-> "object"] @@ fields

\* the parts a response may carry: text, and inline data that is an image,
\* empty, or missing
ResponseParts ==
    { [inlineData |-> Undefined, text |-> Str(<<"Here is your image.">>)],
      [inlineData |-> Object([data |-> Str(<<"UE5HLW9uZQ==">>)]), text |-> Undefined],
      [inlineData |-> Object([data |-> Str(<<"UE5HLXR3bw==">>)]), text |-> Undefined],
      [inlineData |-> Object([data |-> Str(<<>>)]), text |-> Undefined],
      [inlineData |-> Object([data |-> Undefined]), text |-> Undefined] }

PartLists == UNION { [1..n -> ResponseParts] : n \in 0..MaxParts }

\* candidates: with a parts list, with content but no parts, without content
Candidates ==
    { [content |-> Object([parts |-> Array(ps)])] : ps \in PartLists }
    \cup { [content |-> Object([parts |-> Undefined])], [content |-> Undefined] }

\* a candidate that is not the first one
OtherCandidate ==
    [content |-> Object([parts |-> Array(<<[inlineData |-> Object([data |-> Str(<<"UE5HLXR3bw==">>)]), text |-> Undefined]>>)])]

\* the responses ai.models.generateContent may resolve with
Responses ==
    { [candidates |-> Undefined], [candidates |-> Array(<<>>)] }
    \cup { [candidates |-> Array(<<c>>)] : c \in Candidates }
    \cup { [candidates |-> Array(<<c, OtherCandidate>>)] :
             c \in { d \in Candidates : Truthy(d.content) /\ ~Truthy(d.content.parts) } }

\* the values a failed network call rejects with
ThrownErrors ==
    { [message |-> Str(<<"Failed to fetch">>)], [message |-> Str(<<>>)], [message |-> Undefined] }

Resolved(v) == [kind |-> "resolve", value |-> v]

Rejected(e) == [kind |-> "reject", error |-> e]

\* how ai.models.generateContent may settle
ApiOutcomes == { Resolved(r) : r \in Responses } \cup { Rejected(e) : e \in ThrownErrors }

TextPart == [inlineData |-> Undefined, text |-> Str(<<"Here is your image.">>)]

ImagePart(data) == [inlineData |-> Object([data |-> Str(data)]), text |-> Undefined]

WithParts(ps) == [candidates |-> Array(<<[content |-> Object([parts |-> Array(ps)])]>>)]

\* the settled calls the UI is driven with: one of each shape of ApiOutcomes
UiApiOutcomes ==
    { Resolved(WithParts(<<TextPart, ImagePart(<<"UE5HLW9uZQ==">>)>>)),
      Resolved(WithParts(<<ImagePart(<<"UE5HLXR3bw==">>), ImagePart(<<"UE5HLW9uZQ==">>)>>)),
      Resolved(WithParts(<<ImagePart(<<>>), ImagePart(<<"UE5HLW9uZQ==">>)>>)),
      Resolved(WithParts(<<TextPart>>)),
      Resolved([candidates |-> Undefined]),
      Resolved([candidates |-> Array(<<>>)]),
      Resolved([candidates |-> Array(<<[content |-> Undefined]>>)]) }
    \cup { Rejected(e) : e \in ThrownErrors }

\* the loop over the parts: the data of the first part that has inlineData
RECURSIVE FirstInlineData(_, _)
FirstInlineData(parts, i) ==
    IF i > Len(parts) THEN Str(<<>>)
    ELSE IF Truthy(parts[i].inlineData)
         THEN parts[i].inlineData.data
         ELSE FirstInlineData(parts, i + 1)

\* editImage of index.tsx, from the settled API call to what it returns or throws
editImage(api) ==
    IF api.kind = "reject" THEN api
    ELSE LET response == api.value
             candidates == response.candidates
         IN  IF ~Truthy(candidates)
             THEN Rejected([message |-> NoImageMessage])
             ELSE IF Len(candidates.items) = 0
             THEN Rejected([message |-> TypeErrorContent])
             ELSE IF ~Truthy(candidates.items[1].content)
             THEN Rejected([message |-> TypeErrorParts])
             ELSE IF ~Truthy(candidates.items[1].content.parts)
             THEN Rejected([message |-> NoImageMessage])
             ELSE LET editedImageBase64 ==
                          FirstInlineData(candidates.items[1].content.parts.items, 1)
                  IN  IF ~Truthy(editedImageBase64)
                      THEN Rejected([message |-> NoImageMessage])
                      ELSE Resolved(Str(PngPrefix \o editedImageBase64.chars))

\* GeminiService.editImage of the App.tsx variant: resolves with the URL of
\* an extracted image payload or rejects
GeminiServiceOutcomes ==
    { Resolved(Str(PngPrefix \o d)) : d \in { <<"UE5HLW9uZQ==">>, <<"UE5HLXR3bw==">> } }
    \cup { Rejected(e) : e \in ThrownErrors \cup { [message |-> NoImageMessage] } }

(* ------------------------------- state --------------------------------- *)

\* useState initial values of the component, nothing being read or requested
Init ==
    /\ variant \in {"App", "index"}
    /\ image = Null
    /\ instruction = Str(<<>>)
    /\ status = [isLoading |-> FALSE, message |-> Str(<<>>), error |-> Null]
    /\ readers = <<>>
    /\ requests = <<>>
    /\ resultOf = Null
    /\ last = [op |-> "init", arg |-> Null, out |-> Null]

Remove(seq, i) == SubSeq(seq, 1, i - 1) \o SubSeq(seq, i + 1, Len(seq))

\* the base64 taken as everything after the first comma
LoadedImageAfterFirstComma(file) ==
    LET result == ReadAsDataURL(file)
        first == CHOOSE k \in 1..Len(result.chars) :
                     result.chars[k] = "," /\ \A j \in 1..(k - 1) : result.chars[j] # ","
    IN  Object([originalUrl |-> result,
                originalBase64 |-> Str(SubSeq(result.chars, first + 1, Len(result.chars))),
                resultUrl |-> Null,
                mimeType |-> file.type])

\* the ImageState a completed file read stores
LoadedImage(file) ==
    LET result == ReadAsDataURL(file)
        base64 == At(Split(result, ","), 1)
    IN  Object([originalUrl |-> result,
                originalBase64 |-> base64,
                resultUrl |-> Null,
                mimeType |-> file.type])

\* the file input is part of the page only while no image is loaded
FileInputShown == ~Truthy(image)

\* the controls (presets, prompt, run button) are part of the page
ControlsShown == Truthy(image)

\* the download block shown whenever there is a result
DownloadOfferedWhileLoading == Truthy(image) /\ Truthy(image.resultUrl)

\* the block with the download button is part of the page
DownloadOffered == Truthy(image) /\ Truthy(image.resultUrl) /\ ~status.isLoading

\* the payload taken from the latest result when there is one
RequestForLatest(img, finalInstruction) ==
    [base64 |-> IF Truthy(img.resultUrl) THEN At(Split(img.resultUrl, ","), 1) ELSE img.originalBase64,
     mimeType |-> img.mimeType,
     instruction |-> finalInstruction]

\* the payload passed to editImage for the loaded image
RequestFor(img, finalInstruction) ==
    [base64 |-> img.originalBase64, mimeType |-> img.mimeType, instruction |-> finalInstruction]

\* a pending editImage call, known by the image data it was issued with
Pending(request) == [base64 |-> request.base64, mimeType |-> request.mimeType]

\* the update overwriting the original with the result
WithResultReplacingOriginal(prev, resultUrl) ==
    IF Truthy(prev) THEN [prev EXCEPT !.resultUrl = resultUrl, !.originalUrl = resultUrl] ELSE Null

\* the update spreading prev without testing it for null
WithResultUnguarded(prev, resultUrl) ==
    IF Truthy(prev) THEN [prev EXCEPT !.resultUrl = resultUrl]
    ELSE Object([originalUrl |-> Undefined, originalBase64 |-> Undefined,
                 resultUrl |-> resultUrl, mimeType |-> Undefined])

\* setImage(prev => prev ? { ...prev, resultUrl } : null)
WithResult(prev, resultUrl) ==
    IF Truthy(prev) THEN [prev EXCEPT !.resultUrl = resultUrl] ELSE Null

(* ---------------------------- App.tsx ---------------------------------- *)

handleFileUpload(file) ==
    /\ variant = "App"
    /\ FileInputShown
    /\ last' = [op |-> "handleFileUpload", arg |-> file, out |-> Null]
    /\ IF ~Truthy(file)
       THEN UNCHANGED <<status, readers>>
       ELSE IF ~StartsWith(file.type, Str(<<"image/">>))
       THEN /\ status' = [status EXCEPT !.error = InvalidFileMessage]
            /\ UNCHANGED readers
       ELSE /\ Len(readers) < MaxReaders
            /\ readers' = Append(readers, file)
            /\ UNCHANGED status
    /\ UNCHANGED <<variant, image, instruction, requests, resultOf>>

handleFileUploadOnload(i) ==
    /\ variant = "App"
    /\ i \in 1..Len(readers)
    /\ image' = LoadedImage(readers[i])
    /\ status' = [isLoading |-> FALSE, message |-> Str(<<>>), error |-> Null]
    /\ readers' = Remove(readers, i)
    /\ resultOf' = Null
    /\ last' = [op |-> "onload", arg |-> readers[i], out |-> Null]
    /\ UNCHANGED <<variant, instruction, requests>>

setInstruction(text) ==
    /\ variant = "App"
    /\ ControlsShown
    /\ instruction' = text
    /\ last' = [op |-> "setInstruction", arg |-> text, out |-> Null]
    /\ UNCHANGED <<variant, image, status, readers, requests, resultOf>>

\* the typed text taking precedence over the button's preset
finalInstructionTypedFirst(customInstruction, typed) ==
    Or(Or(typed, customInstruction), RemovalPresets.TRANSPARENT_BG)

\* customInstruction || instruction || RemovalPresets.TRANSPARENT_BG
finalInstruction(customInstruction, typed) ==
    Or(Or(customInstruction, typed), RemovalPresets.TRANSPARENT_BG)

\* the arguments the buttons of App.tsx pass to handleRemove
HandleRemoveArgs ==
    { RemovalPresets.TRANSPARENT_BG, RemovalPresets.ENHANCE, RemovalPresets.OBJECTS,
      RemovalPresets.TEXT, RemovalPresets.CLEANUP, Undefined }

handleRemove(customInstruction) ==
    /\ variant = "App"
    /\ ControlsShown
    /\ ~status.isLoading
    /\ IF ~Truthy(image)
       THEN /\ last' = [op |-> "handleRemove", arg |-> customInstruction, out |-> Null]
            /\ UNCHANGED <<status, requests>>
       ELSE /\ Len(requests) < MaxInFlight
            /\ status' = [isLoading |-> TRUE, message |-> AppLoadingMessage, error |-> Null]
            /\ requests' = Append(requests,
                                  Pending(RequestFor(image, finalInstruction(customInstruction, instruction))))
            /\ last' = [op |-> "handleRemove", arg |-> customInstruction,
                        out |-> RequestFor(image, finalInstruction(customInstruction, instruction))]
    /\ UNCHANGED <<variant, image, instruction, readers, resultOf>>

handleRemoveThen(i, outcome) ==
    /\ variant = "App"
    /\ i \in 1..Len(requests)
    /\ outcome.kind = "resolve"
    /\ image' = WithResult(image, outcome.value)
    /\ status' = [isLoading |-> FALSE, message |-> Str(<<>>), error |-> Null]
    /\ requests' = Remove(requests, i)
    /\ resultOf' = IF Truthy(image) THEN requests[i] ELSE Null
    /\ last' = [op |-> "then", arg |-> outcome, out |-> Null]
    /\ UNCHANGED <<variant, instruction, readers>>

\* the catch branch also dropping the earlier result
handleRemoveCatchClearing(i, outcome) ==
    /\ variant = "App"
    /\ i \in 1..Len(requests)
    /\ outcome.kind = "reject"
    /\ status' = [isLoading |-> FALSE, message |-> Str(<<>>),
                  error |-> Or(outcome.error.message, FallbackErrorMessage)]
    /\ image' = WithResult(image, Null)
    /\ requests' = Remove(requests, i)
    /\ last' = [op |-> "catch", arg |-> outcome, out |-> Null]
    /\ UNCHANGED <<variant, instruction, readers, resultOf>>

handleRemoveCatch(i, outcome) ==
    /\ variant = "App"
    /\ i \in 1..Len(requests)
    /\ outcome.kind = "reject"
    /\ status' = [isLoading |-> FALSE, message |-> Str(<<>>),
                  error |-> Or(outcome.error.message, FallbackErrorMessage)]
    /\ requests' = Remove(requests, i)
    /\ last' = [op |-> "catch", arg |-> outcome, out |-> Null]
    /\ UNCHANGED <<variant, image, instruction, readers, resultOf>>

resetImage ==
    /\ variant = "App"
    /\ DownloadOffered
    /\ image' = Null
    /\ instruction' = Str(<<>>)
    /\ status' = [isLoading |-> FALSE, message |-> Str(<<>>), error |-> Null]
    /\ resultOf' = Null
    /\ last' = [op |-> "resetImage", arg |-> Null, out |-> Null]
    /\ UNCHANGED <<variant, readers, requests>>

\* what the anchor created by the download function points to; null when
\* the function returns before creating it
DownloadHref(img) ==
    IF ~Truthy(img) \/ ~Truthy(img.resultUrl) THEN Null ELSE img.resultUrl

downloadImage ==
    /\ variant = "App"
    /\ DownloadOffered
    /\ last' = [op |-> "download", arg |-> Null, out |-> DownloadHref(image)]
    /\ UNCHANGED <<variant, image, instruction, status, readers, requests, resultOf>>

(* ---------------------------- index.tsx -------------------------------- *)

\* the handler replacing the whole status on a rejected file
handleFileChangeResettingStatus(file) ==
    /\ variant = "index"
    /\ FileInputShown
    /\ last' = [op |-> "handleFileChange", arg |-> file, out |-> Null]
    /\ IF ~Truthy(file)
       THEN UNCHANGED <<status, readers>>
       ELSE IF ~StartsWith(file.type, Str(<<"image/">>))
       THEN /\ status' = [isLoading |-> FALSE, message |-> Str(<<>>), error |-> InvalidFileMessage]
            /\ UNCHANGED readers
       ELSE /\ Len(readers) < MaxReaders
            /\ readers' = Append(readers, file)
            /\ UNCHANGED status
    /\ UNCHANGED <<variant, image, instruction, requests, resultOf>>

handleFileChange(file) ==
    /\ variant = "index"
    /\ FileInputShown
    /\ last' = [op |-> "handleFileChange", arg |-> file, out |-> Null]
    /\ IF ~Truthy(file)
       THEN UNCHANGED <<status, readers>>
       ELSE IF ~StartsWith(file.type, Str(<<"image/">>))
       THEN /\ status' = [status EXCEPT !.error = InvalidFileMessage]
            /\ UNCHANGED readers
       ELSE /\ Len(readers) < MaxReaders
            /\ readers' = Append(readers, file)
            /\ UNCHANGED status
    /\ UNCHANGED <<variant, image, instruction, requests, resultOf>>

handleFileChangeOnload(i) ==
    /\ variant = "index"
    /\ i \in 1..Len(readers)
    /\ image' = LoadedImage(readers[i])
    /\ status' = [isLoading |-> FALSE, message |-> Str(<<>>), error |-> Null]
    /\ readers' = Remove(readers, i)
    /\ resultOf' = Null
    /\ last' = [op |-> "onload", arg |-> readers[i], out |-> Null]
    /\ UNCHANGED <<variant, instruction, requests>>

setCustomInstruction(text) ==
    /\ variant = "index"
    /\ ControlsShown
    /\ instruction' = text
    /\ last' = [op |-> "setCustomInstruction", arg |-> text, out |-> Null]
    /\ UNCHANGED <<variant, image, status, readers, requests, resultOf>>

\* the instructions the ActionButtons of index.tsx pass to processImage
QuickActions ==
    { IndexRemovalPresets.TRANSPARENT_BG, IndexRemovalPresets.ENHANCE,
      IndexRemovalPresets.OBJECTS, IndexRemovalPresets.TEXT }

processImage(text) ==
    /\ IF ~Truthy(image)
       THEN /\ last' = [op |-> "processImage", arg |-> text, out |-> Null]
            /\ UNCHANGED <<status, requests>>
       ELSE /\ Len(requests) < MaxInFlight
            /\ status' = [isLoading |-> TRUE, message |-> IndexLoadingMessage, error |-> Null]
            /\ requests' = Append(requests, Pending(RequestFor(image, text)))
            /\ last' = [op |-> "processImage", arg |-> text, out |-> RequestFor(image, text)]
    /\ UNCHANGED <<variant, image, instruction, readers, resultOf>>

\* a click on one of the quick action buttons
ActionButton(preset) ==
    /\ variant = "index"
    /\ ControlsShown
    /\ ~status.isLoading
    /\ processImage(preset)

\* a click on the run button under the custom prompt
RunCustomPrompt ==
    /\ variant = "index"
    /\ ControlsShown
    /\ ~(status.isLoading \/ ~Truthy(Trim(instruction)))
    /\ processImage(instruction)

processImageThen(i, api) ==
    /\ variant = "index"
    /\ i \in 1..Len(requests)
    /\ editImage(api).kind = "resolve"
    /\ image' = WithResult(image, editImage(api).value)
    /\ status' = [isLoading |-> FALSE, message |-> Str(<<>>), error |-> Null]
    /\ requests' = Remove(requests, i)
    /\ resultOf' = IF Truthy(image) THEN requests[i] ELSE Null
    /\ last' = [op |-> "then", arg |-> api, out |-> Null]
    /\ UNCHANGED <<variant, instruction, readers>>

\* the catch branch recording the error without ending the loading state
processImageCatchStillLoading(i, api) ==
    /\ variant = "index"
    /\ i \in 1..Len(requests)
    /\ editImage(api).kind = "reject"
    /\ status' = [status EXCEPT !.error = editImage(api).error.message]
    /\ requests' = Remove(requests, i)
    /\ last' = [op |-> "catch", arg |-> api, out |-> Null]
    /\ UNCHANGED <<variant, image, instruction, readers, resultOf>>

processImageCatch(i, api) ==
    /\ variant = "index"
    /\ i \in 1..Len(requests)
    /\ editImage(api).kind = "reject"
    /\ status' = [isLoading |-> FALSE, message |-> Str(<<>>),
                  error |-> editImage(api).error.message]
    /\ requests' = Remove(requests, i)
    /\ last' = [op |-> "catch", arg |-> api, out |-> Null]
    /\ UNCHANGED <<variant, image, instruction, readers, resultOf>>

\* the trash button: setImage(null)
discard ==
    /\ variant = "index"
    /\ ControlsShown
    /\ image' = Null
    /\ resultOf' = Null
    /\ last' = [op |-> "discard", arg |-> Null, out |-> Null]
    /\ UNCHANGED <<variant, instruction, status, readers, requests>>

download ==
    /\ variant = "index"
    /\ DownloadOffered
    /\ last' = [op |-> "download", arg |-> Null, out |-> DownloadHref(image)]
    /\ UNCHANGED <<variant, image, instruction, status, readers, requests, resultOf>>

(* --------------------------- specification ----------------------------- *)

Next ==
    \/ \E file \in Selections : handleFileUpload(file)
    \/ \E i \in 1..MaxReaders : handleFileUploadOnload(i)
    \/ \E text \in TypedTexts : setInstruction(text)
    \/ \E arg \in HandleRemoveArgs : handleRemove(arg)
    \/ \E i \in 1..MaxInFlight, o \in GeminiServiceOutcomes : handleRemoveThen(i, o)
    \/ \E i \in 1..MaxInFlight, o \in GeminiServiceOutcomes : handleRemoveCatch(i, o)
    \/ resetImage
    \/ downloadImage
    \/ \E file \in Selections : handleFileChange(file)
    \/ \E i \in 1..MaxReaders : handleFileChangeOnload(i)
    \/ \E text \in TypedTexts : setCustomInstruction(text)
    \/ \E preset \in QuickActions : ActionButton(preset)
    \/ RunCustomPrompt
    \/ \E i \in 1..MaxInFlight, api \in UiApiOutcomes : processImageThen(i, api)
    \/ \E i \in 1..MaxInFlight, api \in UiApiOutcomes : processImageCatch(i, api)
    \/ discard
    \/ download

Spec == Init /\ [][Next]_vars

(* ------------------- editImage on every response shape ----------------- *)

ImageFiles == { f \in Files : StartsWith(f.type, Str(<<"image/">>)) }

\* an image is loaded and one request of index.tsx is in flight
InitEditImage ==
    \E file \in ImageFiles, preset \in QuickActions :
        /\ variant = "index"
        /\ image = LoadedImage(file)
        /\ instruction = Str(<<>>)
        /\ status = [isLoading |-> TRUE, message |-> IndexLoadingMessage, error |-> Null]
        /\ readers = <<>>
        /\ requests = <<Pending(RequestFor(image, preset))>>
        /\ resultOf = Null
        /\ last = [op |-> "processImage", arg |-> preset, out |-> RequestFor(image, preset)]

NextEditImage ==
    \/ \E api \in ApiOutcomes : processImageThen(1, api)
    \/ \E api \in ApiOutcomes : processImageCatch(1, api)

SpecEditImage == InitEditImage /\ [][NextEditImage]_vars

(* ------------------------------ claims --------------------------------- *)

NonEmpty(v) == v.tag = "string" /\ v.chars # <<>>

\* the last operation was the completion of a request of index.tsx whose
\* API call resolved with a response
IndexResponded ==
    /\ variant = "index"
    /\ last.op \in {"then", "catch"}
    /\ last.arg.kind = "resolve"

\* the parts list of the first candidate of a response, <<>> when there is none
FirstCandidateParts(response) ==
    IF response.candidates.tag # "array" THEN <<>>
    ELSE IF Len(response.candidates.items) = 0 THEN <<>>
    ELSE IF response.candidates.items[1].content.tag # "object" THEN <<>>
    ELSE IF response.candidates.items[1].content.parts.tag # "array" THEN <<>>
    ELSE response.candidates.items[1].content.parts.items

\* the positions of the parts that carry non-empty inline image data
ImagePositions(parts) ==
    { k \in 1..Len(parts) :
        /\ parts[k].inlineData.tag = "object"
        /\ NonEmpty(parts[k].inlineData.data) }

Min(S) == CHOOSE x \in S : \A y \in S : x <= y

\* C1: when the first candidate of the response has a part with non-empty
\* inlineData.data, editImage returns 'data:image/png;base64,' followed by
\* the data of the first such part, which the handler stores as resultUrl.
C1_FirstNonEmptyImagePart ==
    IndexResponded =>
        LET parts == FirstCandidateParts(last.arg.value)
        IN  ImagePositions(parts) # {} =>
                /\ last.op = "then"
                /\ image.resultUrl =
                       Str(<<"data:image/png;base64", ",">>
                           \o parts[Min(ImagePositions(parts))].inlineData.data.chars)

\* C2: when no part of the first candidate carries non-empty inline image
\* data (no candidates field, an empty candidates list, only text parts),
\* editImage returns no data URL and rejects with the 'AI did not return an
\* image' message, which the handler stores as status.error.
C2_NoImageRejects ==
    IndexResponded =>
        (ImagePositions(FirstCandidateParts(last.arg.value)) = {} =>
            /\ last.op = "catch"
            /\ status.error = Str(<<"AI did not return an image. Try being more specific about what to remove.">>))

\* the error an editImage call of either variant rejected with, and the URL
\* it resolved with, for the outcome recorded by the completing handler
RejectedError(v, arg) == IF v = "App" THEN arg.error ELSE editImage(arg).error

ResolvedUrl(v, arg) == IF v = "App" THEN arg.value ELSE editImage(arg).value

\* C3: when the editImage call rejects, the handler ends with status =
\* {isLoading: false, message: '', error: the error's message} (App.tsx puts
\* 'Something went wrong. Please try again.' for an empty message) and the
\* image state, with any earlier resultUrl, is unchanged.
C3_FailureTransition ==
    [][last'.op = "catch" =>
          LET message == RejectedError(variant, last'.arg).message
          IN  /\ status' = [isLoading |-> FALSE,
                            message |-> Str(<<>>),
                            error |-> IF variant = "App" /\ ~NonEmpty(message)
                                      THEN Str(<<"Something went wrong. Please try again.">>)
                                      ELSE message]
              /\ image' = image]_vars

\* a request failed after an earlier one had succeeded: the result is kept
C3_Witness ==
    /\ last.op = "catch"
    /\ image # Null
    /\ image.resultUrl # Null
    /\ status.error # Null

\* C4: when editImage resolves with a URL while an image is loaded,
\* resultUrl becomes that URL, originalUrl, originalBase64 and mimeType keep
\* their values, status becomes {isLoading: false, message: '', error: null}
\* and the typed instruction is unchanged.
C4_SuccessTransition ==
    [][(last'.op = "then" /\ image # Null) =>
          /\ image'.resultUrl = ResolvedUrl(variant, last'.arg)
          /\ image'.originalUrl = image.originalUrl
          /\ image'.originalBase64 = image.originalBase64
          /\ image'.mimeType = image.mimeType
          /\ status' = [isLoading |-> FALSE, message |-> Str(<<>>), error |-> Null]
          /\ instruction' = instruction]_vars

\* a request succeeded for a loaded image while text was typed
C4_Witness ==
    /\ last.op = "then"
    /\ image # Null
    /\ image.resultUrl # Null
    /\ instruction # Str(<<>>)

\* the last operation sent a request to the image service
RequestSent == last.op \in {"handleRemove", "processImage"} /\ last.out # Null

CommaIndexes(chunks) == { k \in 1..Len(chunks) : chunks[k] = "," }

\* the text between the first and the second comma, all of the text after
\* the first comma when there is no second one
BetweenCommas(chunks) ==
    LET first == Min(CommaIndexes(chunks))
        more == CommaIndexes(chunks) \ {first}
        stop == IF more = {} THEN Len(chunks) + 1 ELSE Min(more)
    IN  SubSeq(chunks, first + 1, stop - 1)

\* C5: every request carries the originalBase64 and the mimeType of the
\* image loaded when the action was triggered, which come from the data URL
\* and the type of the uploaded file, and the chosen instruction; it never
\* carries a returned result, so edits do not chain.
C5_RequestPayload ==
    RequestSent =>
        /\ last.out.base64 = image.originalBase64
        /\ last.out.mimeType = image.mimeType
        /\ \E file \in Files :
              /\ image.originalUrl = ReadAsDataURL(file)
              /\ last.out.mimeType = file.type
              /\ last.out.base64 = Str(BetweenCommas(ReadAsDataURL(file).chars))
        /\ image.resultUrl # Null =>
              Str(<<"data:image/png;base64", ",">> \o last.out.base64.chars) # image.resultUrl
        /\ IF variant = "index"
           THEN last.out.instruction = last.arg
           ELSE last.out.instruction \in {last.arg, instruction, RemovalPresets.TRANSPARENT_BG}

\* a new edit was requested for an image that already shows a result
C5_Witness ==
    /\ RequestSent
    /\ image.resultUrl # Null

\* C6: when the read of a file of an image type completes, image becomes
\* {originalUrl: the data URL, originalBase64: the text between its first
\* and second comma, resultUrl: null, mimeType: the file's type} and status
\* becomes {isLoading: false, message: '', error: null}.
C6_ValidUpload ==
    last.op = "onload" =>
        /\ image.originalUrl = ReadAsDataURL(last.arg)
        /\ image.originalBase64 = Str(BetweenCommas(image.originalUrl.chars))
        /\ image.resultUrl = Null
        /\ image.mimeType = last.arg.type
        /\ DOMAIN image = {"tag", "originalUrl", "originalBase64", "resultUrl", "mimeType"}
        /\ status = [isLoading |-> FALSE, message |-> Str(<<>>), error |-> Null]

\* the read of a file whose data URL has two commas completed
C6_Witness ==
    /\ last.op = "onload"
    /\ Cardinality(CommaIndexes(image.originalUrl.chars)) >= 2

\* C7: handleRemove of App.tsx sends the preset passed by the button when
\* one is passed and non-empty, otherwise the typed text when non-empty,
\* otherwise the TRANSPARENT_BG preset; the instruction sent is a non-empty
\* string and a preset always overrides typed text.
C7_InstructionSelection ==
    (variant = "App" /\ RequestSent) =>
        /\ last.out.instruction =
              (IF NonEmpty(last.arg) THEN last.arg
               ELSE IF NonEmpty(instruction) THEN instruction
               ELSE RemovalPresets.TRANSPARENT_BG)
        /\ NonEmpty(last.out.instruction)
        /\ last.arg \in {RemovalPresets[k] : k \in DOMAIN RemovalPresets} =>
              last.out.instruction = last.arg

\* a preset button was clicked while text was typed in the custom prompt
C7_Witness ==
    /\ variant = "App"
    /\ RequestSent
    /\ NonEmpty(last.arg)
    /\ NonEmpty(instruction)

\* C8: the download function does nothing when no image is loaded or
\* resultUrl is null; download is offered only when resultUrl is non-null
\* and nothing is loading; when it runs it uses the current resultUrl and
\* changes neither image, instruction nor status.
C8_DownloadGuard ==
    /\ [](/\ (image = Null \/ image.resultUrl = Null) => DownloadHref(image) = Null
          /\ DownloadOffered =>
                (image # Null /\ image.resultUrl # Null /\ status.isLoading = FALSE))
    /\ [][last'.op = "download" =>
             /\ image # Null /\ image.resultUrl # Null /\ status.isLoading = FALSE
             /\ last'.out = image.resultUrl
             /\ image' = image
             /\ instruction' = instruction
             /\ status' = status]_vars

\* a result was downloaded
C8_Witness ==
    /\ last.op = "download"
    /\ image # Null
    /\ last.out = image.resultUrl
    /\ last.out # Null

\* C9: in both variants at most one editImage request is in flight, and
\* status.isLoading is false only when no request is outstanding.
C9_AtMostOneRequest ==
    /\ Len(requests) <= 1
    /\ status.isLoading = FALSE => Len(requests) = 0

\* C10: a resultUrl held in state is the result of a request that was issued
\* with the originalBase64 of the image currently held in state.
C10_ResultOfDisplayedOriginal ==
    (image # Null /\ image.resultUrl # Null) =>
        /\ resultOf # Null
        /\ resultOf.base64 = image.originalBase64

\* C11: in both variants, the step in which an editImage call settles
\* (resolves or rejects) leaves status.isLoading false, and in no reachable
\* state is status.isLoading true while no request is in flight.
C11_LoadingClears ==
    /\ [](Len(requests) = 0 => status.isLoading = FALSE)
    /\ [][last'.op \in {"then", "catch"} =>
             /\ Len(requests') = Len(requests) - 1
             /\ status'.isLoading = FALSE]_vars

\* the only request in flight failed, and nothing is loading any more
C11_Witness ==
    /\ last.op = "catch"
    /\ Len(requests) = 0
    /\ status.isLoading = FALSE
    /\ status.error # Null

\* C12: in every reachable state of either variant, isLoading = true implies
\* error = null and a non-empty message, and isLoading = false implies
\* message = ''; the error banner and the spinner are never both active.
C12_StatusConsistency ==
    /\ status.isLoading = TRUE => (status.error = Null /\ NonEmpty(status.message))
    /\ status.isLoading = FALSE => status.message = Str(<<>>)
    /\ ~(status.isLoading = TRUE /\ Truthy(status.error))

\* C13: when a request resolves while no image is held (it was removed
\* while the request was in flight), image stays null, no resultUrl is
\* stored and only status is written.
C13_LateResultKeepsNull ==
    [][(last'.op = "then" /\ image = Null) =>
          /\ image' = Null
          /\ resultOf' = Null
          /\ status' = [isLoading |-> FALSE, message |-> Str(<<>>), error |-> Null]
          /\ instruction' = instruction
          /\ readers' = readers]_vars

\* a request resolved with an image after the image had been discarded
C13_Witness ==
    /\ last.op = "then"
    /\ image = Null
    /\ resultOf = Null
    /\ status.isLoading = FALSE

\* C14: in both variants, right after a request fails status.error is a
\* non-empty string, so the error banner is shown, whatever was thrown.
C14_FailureNeverSilent ==
    last.op = "catch" =>
        /\ NonEmpty(status.error)
        /\ Truthy(status.error)

\* the last operation was a file selection of either variant
FileSelected == last.op \in {"handleFileUpload", "handleFileChange"}

\* C15: selecting a file whose type does not start with 'image/' sets
\* status.error to 'Please upload a valid image file.' and changes nothing
\* else: image, isLoading, message and the instruction keep their values
\* and no file read is started; an empty selection changes no state at all.
C15_RejectedUpload ==
    [][(last'.op \in {"handleFileUpload", "handleFileChange"}) =>
          /\ (last'.arg # Undefined
              /\ (last'.arg.type.chars = <<>> \/ Head(last'.arg.type.chars) # "image/")) =>
                 /\ status'.error = Str(<<"Please upload a valid image file.">>)
                 /\ status'.isLoading = status.isLoading
                 /\ status'.message = status.message
                 /\ image' = image
                 /\ instruction' = instruction
                 /\ readers' = readers
                 /\ requests' = requests
          /\ last'.arg = Undefined =>
                 /\ status' = status
                 /\ image' = image
                 /\ instruction' = instruction
                 /\ readers' = readers
                 /\ requests' = requests]_vars

\* a file that is not an image was selected while a request was loading
C15_Witness ==
    /\ FileSelected
    /\ last.arg # Undefined
    /\ Head(last.arg.type.chars) = "text/"
    /\ status.error = Str(<<"Please upload a valid image file.">>)
    /\ status.isLoading = TRUE

====
